---- MODULE Spec2Model ----
(***************************************************************************)
(* The heat-equation notebook main_diffusion_CR.ipynb as a state machine.   *)
(*                                                                          *)
(* Two views of the same script are given.                                  *)
(*   Spec    the script statement by statement: the time variable is an     *)
(*           IEEE-754 binary64 number, the finite-element data (u_n, u_sol, *)
(*           f, b, A) are the terms the library calls build from their      *)
(*           arguments, and any library call may raise.                     *)
(*   SpecBC  the linear system the script assembles and solves, with exact  *)
(*           rational arithmetic, on the coarsest mesh of the domain.       *)
(***************************************************************************)
EXTENDS Integers, Sequences, FiniteSets, TLC

Max(a, b) == IF a >= b THEN a ELSE b

Min(a, b) == IF a <= b THEN a ELSE b

(***************************************************************************)
(* Natural numbers of any size, as sequences of limbs in base 2^15, least   *)
(* significant limb first and without leading zeros (the last limb, if any, *)
(* is not 0).                                                               *)
(***************************************************************************)
LimbBits == 3 * 5

LimbBase == 2 ^ LimbBits

RECURSIVE Trim(_)
Trim(s) ==
    IF s = <<>> THEN <<>>
    ELSE IF s[Len(s)] # 0 THEN s
    ELSE Trim(SubSeq(s, 1, Len(s) - 1))

LimbAt(s, i) == IF i >= 1 /\ i <= Len(s) THEN s[i] ELSE 0

RECURSIVE BigOfInt(_)
BigOfInt(n) ==
    IF n = 0 THEN <<>> ELSE <<n % LimbBase>> \o BigOfInt(n \div LimbBase)

BAdd(a, b) ==
    LET n == Max(Len(a), Len(b)) + 1
        carry[i \in 0..n] ==
            IF i = 0 THEN 0
            ELSE (LimbAt(a, i) + LimbAt(b, i) + carry[i - 1]) \div LimbBase
    IN  Trim([i \in 1..n |->
                (LimbAt(a, i) + LimbAt(b, i) + carry[i - 1]) % LimbBase])

\* a * k for an integer 0 <= k <= 2^15.
BMulSmall(a, k) ==
    LET n == Len(a) + 1
        carry[i \in 0..n] ==
            IF i = 0 THEN 0
            ELSE (LimbAt(a, i) * k + carry[i - 1]) \div LimbBase
    IN  Trim([i \in 1..n |-> (LimbAt(a, i) * k + carry[i - 1]) % LimbBase])

\* Quotient and remainder of a by an integer 0 < d <= 2^15.
BDivSmall(a, d) ==
    LET L == Len(a)
        \* rem[i]: the remainder after the i most significant limbs
        rem[i \in 0..L] ==
            IF i = 0 THEN 0 ELSE (rem[i - 1] * LimbBase + a[L - i + 1]) % d
    IN  [q |-> Trim([p \in 1..L |-> (rem[L - p] * LimbBase + a[p]) \div d]),
         r |-> rem[L]]

\* a * 2^k
Shl(a, k) ==
    IF a = <<>> THEN <<>>
    ELSE BMulSmall([i \in 1..(k \div LimbBits) |-> 0] \o a, 2 ^ (k % LimbBits))

\* a \div 2^k
Shr(a, k) ==
    IF Len(a) <= k \div LimbBits THEN <<>>
    ELSE BDivSmall(SubSeq(a, k \div LimbBits + 1, Len(a)), 2 ^ (k % LimbBits)).q

\* a % 2^k
LowBits(a, k) ==
    LET w == k \div LimbBits
    IN  IF Len(a) <= w THEN a
        ELSE Trim(SubSeq(a, 1, w) \o <<a[w + 1] % (2 ^ (k % LimbBits))>>)

BLess(a, b) ==
    \/ Len(a) < Len(b)
    \/ /\ Len(a) = Len(b)
       /\ \E i \in 1..Len(a) :
            /\ a[i] < b[i]
            /\ \A j \in (i + 1)..Len(a) : a[j] = b[j]

RECURSIVE IntBitLen(_)
IntBitLen(n) == IF n = 0 THEN 0 ELSE 1 + IntBitLen(n \div 2)

\* The number of bits of a: 0 for 0, else 1 + floor(log2 a).
BitLen(a) ==
    IF a = <<>> THEN 0 ELSE LimbBits * (Len(a) - 1) + IntBitLen(a[Len(a)])

(***************************************************************************)
(* binary64, the non-negative finite values: [m, e] stands for m * 2^e,    *)
(* with a significand m of exactly 53 bits (or m = 0 and e = 0), so that    *)
(* equal numbers are equal records.  The numbers of the script stay far     *)
(* from the subnormal and the overflow range.                               *)
(***************************************************************************)
SignificandBits == 52 + 1

FZero == [m |-> <<>>, e |-> 0]

\* m * 2^e with m of at most 54 bits, brought to 53 bits (a 54-bit m is 2^53).
Normal(m, e) ==
    LET L == BitLen(m)
    IN  IF L = 0 THEN FZero
        ELSE IF L > SignificandBits
        THEN [m |-> Shr(m, L - SignificandBits), e |-> e + (L - SignificandBits)]
        ELSE [m |-> Shl(m, SignificandBits - L), e |-> e - (SignificandBits - L)]

\* The binary64 nearest to s * 2^e (plus, when sticky, a fraction of 2^e
\* below one half), ties to the even significand.
RoundNearestEven(s, sticky, e) ==
    LET d == BitLen(s) - SignificandBits
    IN  IF d <= 0 THEN Normal(s, e)
        ELSE LET q == Shr(s, d)
                 r == LowBits(s, d)
                 half == Shl(<<1>>, d - 1)
                 up == \/ BLess(half, r)
                       \/ r = half /\ (sticky \/ q[1] % 2 = 1)
             IN  Normal(IF up THEN BAdd(q, <<1>>) ELSE q, e + d)

\* RoundNearestEven rounding toward zero instead: a truncating sum.
RoundTowardZero(s, sticky, e) ==
    LET d == BitLen(s) - SignificandBits
    IN  IF d <= 0 THEN Normal(s, e) ELSE Normal(Shr(s, d), e + d)

FRound(s, sticky, e) == RoundNearestEven(s, sticky, e)

FAdd(x, y) ==
    IF x.m = <<>> THEN y
    ELSE IF y.m = <<>> THEN x
    ELSE LET emin == Min(x.e, y.e)
         IN  FRound(BAdd(Shl(x.m, x.e - emin), Shl(y.m, y.e - emin)),
                    FALSE, emin)

FLess(x, y) ==
    IF x.m = <<>> THEN y.m # <<>>
    ELSE IF y.m = <<>> THEN FALSE
    ELSE LET emin == Min(x.e, y.e)
         IN  BLess(Shl(x.m, x.e - emin), Shl(y.m, y.e - emin))

FromInt(n) == FRound(BigOfInt(n), FALSE, 0)

\* x / n for an integer 0 < n <= 2^15, correctly rounded (Python's float / int).
FDivInt(x, n) ==
    LET k == 2 + IntBitLen(n)
        qr == BDivSmall(Shl(x.m, k), n)
    IN  IF x.m = <<>> THEN FZero
        ELSE FRound(qr.q, qr.r # 0, x.e - k)

(***************************************************************************)
(* The mesh: create_rectangle over [0,2] x [0,2] with nx x ny squares, each *)
(* cut into two triangles by its diagonal.  A vertex is its grid index      *)
(* <<i, j>>, and an edge or a cell is the set of its vertices.              *)
(***************************************************************************)
nx == 1

ny == 1

tdim == 2

Vertices == (0..nx) \X (0..ny)

Cells ==
    UNION {{ {<<i, j>>, <<i + 1, j>>, <<i + 1, j + 1>>},
             {<<i, j>>, <<i, j + 1>>, <<i + 1, j + 1>>} } :
           <<i, j>> \in (0..(nx - 1)) \X (0..(ny - 1))}

Edges == UNION {{e \in SUBSET c : Cardinality(e) = 2} : c \in Cells}

\* The mesh entities of a topological dimension.
Entities(dim) ==
    IF dim = 0 THEN {{v} : v \in Vertices}
    ELSE IF dim = 1 THEN Edges
    ELSE Cells

\* The exterior facets: the edges that belong to exactly one cell.
ExteriorFacets == {e \in Edges : Cardinality({c \in Cells : e \subseteq c}) = 1}

\* mesh.locate_entities_boundary(domain, dim, marker) with the marker that is
\* True everywhere: the entities of dimension dim that lie on an exterior facet.
locate_entities_boundary(dim) ==
    {en \in Entities(dim) : \E fa \in ExteriorFacets : en \subseteq fa}

\* The Crouzeix-Raviart space V = ("CR", 1): one degree of freedom per edge,
\* named by its edge, and none on a vertex or in the interior of a cell.
Dofs == Edges

\* fem.locate_dofs_topological(V, dim, entities): the degrees of freedom on
\* the closure of the entities (the sub-entities of each that carry one).
locate_dofs_topological(dim, entities) ==
    {d \in Dofs : \E en \in entities : d \subseteq en}

\* Line 133 of the notebook.
fdim == tdim - 2

boundary_facets == locate_entities_boundary(fdim)

(***************************************************************************)
(* Temporal parameters (lines 178-181).                                     *)
(***************************************************************************)
T == FromInt(3)

num_steps == 200

dt == FDivInt(T, num_steps)

(***************************************************************************)
(* The data of the script in Spec are the terms the library calls build.    *)
(***************************************************************************)
Unset == [op |-> "unset"]

\* u.interpolate(initial_condition)
InitialCondition == [op |-> "interpolate", expr |-> "initial_condition"]

\* f.interpolate(f_expr.eval) while f_expr.t is tt
SourceAt(tt) == [op |-> "interpolate", expr |-> "f_expr.eval", t |-> tt]

\* fem.dirichletbc(0, locate_dofs_topological(V, fdim, boundary_facets), V)
DirichletBC ==
    [value |-> 0, dim |-> fdim, entities |-> boundary_facets,
     dofs |-> locate_dofs_topological(fdim, boundary_facets)]

\* assemble_matrix(fem.form(a)): no boundary condition is handed over.
AssembledMatrix == [op |-> "assemble_matrix", form |-> "a", bcs |-> <<>>]

\* assemble_vector(b, fem.form(L)) adds the vector of L = (u_n + dt*f)*v*dx,
\* read from the values u_n and f hold at the call, to what b holds.
AssembledVector(un, ff) ==
    [op |-> "assemble_vector", form |-> "L", u_n |-> un, f |-> ff]

Lifting(bcs) == [op |-> "apply_lifting", form |-> "a", bc |-> bcs]

BoundaryValues(bcs) == [op |-> "set_bc", bc |-> bcs]

\* solver.solve(b, u_sol.vector)
Solution(mat, rhs) == [op |-> "solve", A |-> mat, b |-> rhs]

IsSolution(u) == u.op = "solve"

\* The contributions assemble_vector has added to the right-hand side rhs.
Assembled(rhs) ==
    SelectSeq(rhs, LAMBDA c : c.op = "assemble_vector")

\* The time at which the forcing term of a solution was evaluated.
ForcingTime(u) ==
    IF IsSolution(u) /\ Assembled(u.b) # <<>>
    THEN Assembled(u.b)[1].f.t
    ELSE FZero

\* The previous solution a solution was computed from.
Previous(u) ==
    IF IsSolution(u) /\ Assembled(u.b) # <<>>
    THEN Assembled(u.b)[1].u_n
    ELSE Unset

(***************************************************************************)
(* Spec: the script, one action per statement.                              *)
(*   pc          the statement to run next                                  *)
(*   raised_at   the statement whose call raised (pc = "raised")            *)
(*   t, f_expr_t the script's t and f_expr.t                                *)
(*   f, A, b, bc, u_n, u_sol   the objects of those names                   *)
(*   plotter     "none", "open" (after open_gif) or "closed"               *)
(*   plot_data   warped.point_data["u_sol"]                                 *)
(*   frames      the frames written, each the forcing time of its data      *)
(*   printed     whether "Simulation complete." was printed                 *)
(*   iter, solves  the loop bodies entered and the solves returned so far   *)
(***************************************************************************)
VARIABLES pc, raised_at, t, f_expr_t, f, A, b, bc, u_n, u_sol,
          plotter, plot_data, frames, printed, iter, solves

vars == <<pc, raised_at, t, f_expr_t, f, A, b, bc, u_n, u_sol,
          plotter, plot_data, frames, printed, iter, solves>>

Init ==
    /\ pc = "define_bc"
    /\ raised_at = "none"
    /\ t = FZero
    /\ f_expr_t = FZero
    /\ f = Unset
    /\ A = Unset
    /\ b = <<>>
    /\ bc = Unset
    /\ u_n = Unset
    /\ u_sol = Unset
    /\ plotter = "none"
    /\ plot_data = Unset
    /\ frames = <<>>
    /\ printed = FALSE
    /\ iter = 0
    /\ solves = 0

\* Lines 133-143.
DefineBC ==
    /\ pc = "define_bc"
    /\ bc' = DirichletBC
    /\ pc' = "init_u_n"
    /\ UNCHANGED <<raised_at, t, f_expr_t, f, A, b, u_n, u_sol,
                   plotter, plot_data, frames, printed, iter, solves>>

\* Lines 160-168: f_expr = TimeDependentSource(), u_n from the initial condition.
InitPrevious ==
    /\ pc = "init_u_n"
    /\ f_expr_t' = FZero
    /\ u_n' = InitialCondition
    /\ pc' = "define_forms"
    /\ UNCHANGED <<raised_at, t, f, A, b, bc, u_sol,
                   plotter, plot_data, frames, printed, iter, solves>>

\* Lines 178-181 and 202-206: t = 0, f interpolated, the forms a and L.
DefineForms ==
    /\ pc = "define_forms"
    /\ t' = FZero
    /\ f' = SourceAt(f_expr_t)
    /\ pc' = "assemble_system"
    /\ UNCHANGED <<raised_at, f_expr_t, A, b, bc, u_n, u_sol,
                   plotter, plot_data, frames, printed, iter, solves>>

\* Lines 216-218: A assembled once, b created (zero).
AssembleSystem ==
    /\ pc = "assemble_system"
    /\ A' = AssembledMatrix
    /\ b' = <<>>
    /\ pc' = "init_u_sol"
    /\ UNCHANGED <<raised_at, t, f_expr_t, f, bc, u_n, u_sol,
                   plotter, plot_data, frames, printed, iter, solves>>

\* Lines 231-233.
InitSolution ==
    /\ pc = "init_u_sol"
    /\ u_sol' = InitialCondition
    /\ pc' = "open_plotter"
    /\ UNCHANGED <<raised_at, t, f_expr_t, f, A, b, bc, u_n,
                   plotter, plot_data, frames, printed, iter, solves>>

\* Lines 275-292: the plotter, open_gif, the grid's data from u_sol.
OpenPlotter ==
    /\ pc = "open_plotter"
    /\ plotter' = "open"
    /\ plot_data' = u_sol
    /\ pc' = "create_solver"
    /\ UNCHANGED <<raised_at, t, f_expr_t, f, A, b, bc, u_n, u_sol,
                   frames, printed, iter, solves>>

\* Lines 302-305.
CreateSolver ==
    /\ pc = "create_solver"
    /\ pc' = "while"
    /\ UNCHANGED <<raised_at, t, f_expr_t, f, A, b, bc, u_n, u_sol,
                   plotter, plot_data, frames, printed, iter, solves>>

\* Line 322: while t < T.
LoopTest ==
    /\ pc = "while"
    /\ pc' = IF FLess(t, T) THEN "advance" ELSE "close"
    /\ UNCHANGED <<raised_at, t, f_expr_t, f, A, b, bc, u_n, u_sol,
                   plotter, plot_data, frames, printed, iter, solves>>

\* Line 323: t += dt.
AdvanceTime ==
    /\ pc = "advance"
    /\ t' = FAdd(t, dt)
    /\ iter' = iter + 1
    /\ pc' = "set_source_time"
    /\ UNCHANGED <<raised_at, f_expr_t, f, A, b, bc, u_n, u_sol,
                   plotter, plot_data, frames, printed, solves>>

\* SetSourceTime left out: f_expr.t keeps the time of the step before.
SetSourceTime_stale ==
    /\ pc = "set_source_time"
    /\ pc' = "interpolate_f"
    /\ UNCHANGED <<raised_at, t, f_expr_t, f, A, b, bc, u_n, u_sol,
                   plotter, plot_data, frames, printed, iter, solves>>

\* Line 324: f_expr.t = t.
SetSourceTime ==
    /\ pc = "set_source_time"
    /\ f_expr_t' = t
    /\ pc' = "interpolate_f"
    /\ UNCHANGED <<raised_at, t, f, A, b, bc, u_n, u_sol,
                   plotter, plot_data, frames, printed, iter, solves>>

\* Line 325: f.interpolate(f_expr.eval).
InterpolateSource ==
    /\ pc = "interpolate_f"
    /\ f' = SourceAt(f_expr_t)
    /\ pc' = "zero_b"
    /\ UNCHANGED <<raised_at, t, f_expr_t, A, b, bc, u_n, u_sol,
                   plotter, plot_data, frames, printed, iter, solves>>

\* ZeroRhs left out: b keeps what the earlier steps assembled.
ZeroRhs_skipped ==
    /\ pc = "zero_b"
    /\ pc' = "assemble_vector"
    /\ UNCHANGED <<raised_at, t, f_expr_t, f, A, b, bc, u_n, u_sol,
                   plotter, plot_data, frames, printed, iter, solves>>

\* Lines 327-328: loc_b.set(0).
ZeroRhs ==
    /\ pc = "zero_b"
    /\ b' = <<>>
    /\ pc' = "assemble_vector"
    /\ UNCHANGED <<raised_at, t, f_expr_t, f, A, bc, u_n, u_sol,
                   plotter, plot_data, frames, printed, iter, solves>>

\* Line 330: assemble_vector(b, fem.form(L)).
AssembleVector ==
    /\ pc = "assemble_vector"
    /\ b' = Append(b, AssembledVector(u_n, f))
    /\ pc' = "apply_lifting"
    /\ UNCHANGED <<raised_at, t, f_expr_t, f, A, bc, u_n, u_sol,
                   plotter, plot_data, frames, printed, iter, solves>>

\* Line 331: apply_lifting(b, [fem.form(a)], [[bc]]).
ApplyLifting ==
    /\ pc = "apply_lifting"
    /\ b' = Append(b, Lifting(bc))
    /\ pc' = "ghost_update"
    /\ UNCHANGED <<raised_at, t, f_expr_t, f, A, bc, u_n, u_sol,
                   plotter, plot_data, frames, printed, iter, solves>>

\* Line 332: b.ghostUpdate(...), which moves nothing on the one process.
GhostUpdate ==
    /\ pc = "ghost_update"
    /\ pc' = "set_bc"
    /\ UNCHANGED <<raised_at, t, f_expr_t, f, A, b, bc, u_n, u_sol,
                   plotter, plot_data, frames, printed, iter, solves>>

\* Line 333: set_bc(b, [bc]).
SetBC ==
    /\ pc = "set_bc"
    /\ b' = Append(b, BoundaryValues(bc))
    /\ pc' = "solve"
    /\ UNCHANGED <<raised_at, t, f_expr_t, f, A, bc, u_n, u_sol,
                   plotter, plot_data, frames, printed, iter, solves>>

\* Line 335: solver.solve(b, u_sol.vector).
Solve ==
    /\ pc = "solve"
    /\ u_sol' = Solution(A, b)
    /\ solves' = solves + 1
    /\ pc' = "scatter_forward"
    /\ UNCHANGED <<raised_at, t, f_expr_t, f, A, b, bc, u_n,
                   plotter, plot_data, frames, printed, iter>>

\* Line 336: u_sol.x.scatter_forward(), which moves nothing on the one process.
ScatterForward ==
    /\ pc = "scatter_forward"
    /\ pc' = "update_u_n"
    /\ UNCHANGED <<raised_at, t, f_expr_t, f, A, b, bc, u_n, u_sol,
                   plotter, plot_data, frames, printed, iter, solves>>

\* UpdatePrevious without the copy: u_n keeps the older solution.
UpdatePrevious_skipped ==
    /\ pc = "update_u_n"
    /\ pc' = "update_plot"
    /\ UNCHANGED <<raised_at, t, f_expr_t, f, A, b, bc, u_n, u_sol,
                   plotter, plot_data, frames, printed, iter, solves>>

\* Line 339: u_n.x.array[:] = u_sol.x.array[:].
UpdatePrevious ==
    /\ pc = "update_u_n"
    /\ u_n' = u_sol
    /\ pc' = "update_plot"
    /\ UNCHANGED <<raised_at, t, f_expr_t, f, A, b, bc, u_sol,
                   plotter, plot_data, frames, printed, iter, solves>>

\* Lines 347-349: warped.point_data["u_sol"][:] = u_sol.x.array.
UpdatePlot ==
    /\ pc = "update_plot"
    /\ plot_data' = u_sol
    /\ pc' = "write_frame"
    /\ UNCHANGED <<raised_at, t, f_expr_t, f, A, b, bc, u_n, u_sol,
                   plotter, frames, printed, iter, solves>>

\* WriteFrame only every other step.
WriteFrame_everyOther ==
    /\ pc = "write_frame"
    /\ frames' = IF iter % 2 = 0 THEN Append(frames, ForcingTime(plot_data))
                 ELSE frames
    /\ pc' = "while"
    /\ UNCHANGED <<raised_at, t, f_expr_t, f, A, b, bc, u_n, u_sol,
                   plotter, plot_data, printed, iter, solves>>

\* Line 350: plotter.write_frame().
WriteFrame ==
    /\ pc = "write_frame"
    /\ frames' = Append(frames, ForcingTime(plot_data))
    /\ pc' = "while"
    /\ UNCHANGED <<raised_at, t, f_expr_t, f, A, b, bc, u_n, u_sol,
                   plotter, plot_data, printed, iter, solves>>

\* Line 351: plotter.close().
ClosePlotter ==
    /\ pc = "close"
    /\ plotter' = "closed"
    /\ pc' = "print"
    /\ UNCHANGED <<raised_at, t, f_expr_t, f, A, b, bc, u_n, u_sol,
                   plot_data, frames, printed, iter, solves>>

\* Line 354: print("Simulation complete.").
PrintComplete ==
    /\ pc = "print"
    /\ printed' = TRUE
    /\ pc' = "done"
    /\ UNCHANGED <<raised_at, t, f_expr_t, f, A, b, bc, u_n, u_sol,
                   plotter, plot_data, frames, iter, solves>>

\* The statements that call into the libraries (dolfinx, PETSc, pyvista).
SetupCalls ==
    {"define_bc", "init_u_n", "define_forms", "assemble_system",
     "init_u_sol", "open_plotter", "create_solver"}

LoopCalls ==
    {"interpolate_f", "zero_b", "assemble_vector", "apply_lifting",
     "ghost_update", "set_bc", "solve", "scatter_forward", "update_plot",
     "write_frame"}

LibraryCalls == SetupCalls \cup LoopCalls \cup {"close"}

\* A failing call handled as by try/finally: the script goes on to close the
\* plotter and to report completion.
Raise_handled ==
    /\ pc \in LibraryCalls
    /\ raised_at' = pc
    /\ pc' = "close"
    /\ UNCHANGED <<t, f_expr_t, f, A, b, bc, u_n, u_sol,
                   plotter, plot_data, frames, printed, iter, solves>>

\* A library call raises: nothing in the script catches it (lines 322-354 hold
\* no try), so the run ends at the call, which has changed nothing.
Raise ==
    /\ pc \in LibraryCalls
    /\ raised_at' = pc
    /\ pc' = "raised"
    /\ UNCHANGED <<t, f_expr_t, f, A, b, bc, u_n, u_sol,
                   plotter, plot_data, frames, printed, iter, solves>>

Next ==
    \/ DefineBC \/ InitPrevious \/ DefineForms \/ AssembleSystem
    \/ InitSolution \/ OpenPlotter \/ CreateSolver
    \/ LoopTest \/ AdvanceTime \/ SetSourceTime \/ InterpolateSource
    \/ ZeroRhs \/ AssembleVector \/ ApplyLifting \/ GhostUpdate \/ SetBC
    \/ Solve \/ ScatterForward \/ UpdatePrevious \/ UpdatePlot \/ WriteFrame
    \/ ClosePlotter \/ PrintComplete
    \/ Raise

Spec == Init /\ [][Next]_vars

(***************************************************************************)
(* Exact rational numbers <<n, d>>, d > 0, in lowest terms.                 *)
(***************************************************************************)
Abs(n) == IF n < 0 THEN -n ELSE n

RECURSIVE GCD(_, _)
GCD(a, c) == IF c = 0 THEN a ELSE GCD(c, a % c)

Rat(n, d) ==
    LET g == GCD(Abs(n), Abs(d))
        sg == IF d < 0 THEN -1 ELSE 1
    IN  <<sg * (n \div g), sg * (d \div g)>>

RZero == <<0, 1>>

ROne == <<1, 1>>

RAdd(x, y) == Rat(x[1] * y[2] + y[1] * x[2], x[2] * y[2])

RSub(x, y) == Rat(x[1] * y[2] - y[1] * x[2], x[2] * y[2])

RMul(x, y) ==
    LET g1 == GCD(Abs(x[1]), y[2])
        g2 == GCD(Abs(y[1]), x[2])
        h1 == IF g1 = 0 THEN 1 ELSE g1
        h2 == IF g2 = 0 THEN 1 ELSE g2
    IN  Rat((x[1] \div h1) * (y[1] \div h2), (x[2] \div h2) * (y[2] \div h1))

RDiv(x, y) == RMul(x, <<y[2], y[1]>>)

RLess(x, y) == x[1] * y[2] < y[1] * x[2]

\* The sum of the values of the function fn over the set S of its arguments.
RECURSIVE RSum(_, _)
RSum(fn, S) ==
    IF S = {} THEN RZero
    ELSE LET d == CHOOSE d \in S : TRUE
         IN  RAdd(fn[d], RSum(fn, S \ {d}))

(***************************************************************************)
(* The discrete problem in V, the Crouzeix-Raviart space of the mesh: a     *)
(* function of V is the vector of its values at the edge midpoints.         *)
(***************************************************************************)
\* The point of a vertex: create_rectangle spans [0,2] x [0,2].
Point(v) == <<Rat(2 * v[1], nx), Rat(2 * v[2], ny)>>

Dot(p, q) == RAdd(RMul(p[1], q[1]), RMul(p[2], q[2]))

Minus(p, q) == <<RSub(p[1], q[1]), RSub(p[2], q[2])>>

\* tabulate_dof_coordinates: the midpoint of the edge of a degree of freedom.
Midpoint(d) ==
    LET v == CHOOSE v \in d : TRUE
        w == CHOOSE w \in d : w # v
    IN  <<RDiv(RAdd(Point(v)[1], Point(w)[1]), <<2, 1>>),
          RDiv(RAdd(Point(v)[2], Point(w)[2]), <<2, 1>>)>>

\* The area of a cell (half the cross product of two of its sides).
Area(c) ==
    LET v == CHOOSE v \in c : TRUE
        w == CHOOSE w \in c : w # v
        z == CHOOSE z \in c : z # v /\ z # w
        p == Minus(Point(w), Point(v))
        q == Minus(Point(z), Point(v))
        cr == RSub(RMul(p[1], q[2]), RMul(p[2], q[1]))
    IN  RDiv(<<Abs(cr[1]), cr[2]>>, <<2, 1>>)

\* Line 164: initial_condition(x).
initial_condition(x) ==
    RMul(RMul(x[1], x[2]), RMul(RSub(x[1], <<2, 1>>), RSub(x[2], <<2, 1>>)))

\* Line 158: TimeDependentSource.eval(x), with ex standing for np.exp(-self.t).
SourceEval(x, ex) ==
    LET two == <<2, 1>>
        poly == RAdd(initial_condition(x),
                     RAdd(RMul(two, RMul(x[1], RSub(x[1], two))),
                          RMul(two, RMul(x[2], RSub(x[2], two)))))
    IN  RMul(RSub(RZero, poly), ex)

\* The values np.exp(-t) may take in the model: 1 at t = 0, and for t > 0
\* one of a few rationals of the interval (0, 1).
ExpNegValues(tt) ==
    IF tt = RZero THEN {ROne} ELSE {<<1, 2>>, <<1, 3>>, <<1, 4>>}

\* V.tabulate_dof_coordinates(): the points the functions of V are
\* interpolated at.
tabulate_dof_coordinates == {Midpoint(d) : d \in Dofs}

\* u.interpolate(expr): the values of expr at the midpoints of the edges, for
\* expr the function of the point x it is evaluated at.
Interpolate(expr) == [d \in Dofs |-> expr[Midpoint(d)]]

\* The mass matrix of V, u*v*dx: it is diagonal for Crouzeix-Raviart
\* functions, a third of the area of each cell of the edge.
Mass(d1, d2) ==
    IF d1 # d2 THEN RZero
    ELSE RSum([c \in Cells |-> RDiv(Area(c), <<3, 1>>)],
              {c \in Cells : d1 \subseteq c})

\* The stiffness of one cell, dot(grad(u), grad(v))*dx: the basis function of
\* an edge is 1 - 2*lambda of the opposite vertex, whose gradient is the
\* edge turned by a right angle over twice the area.
CellStiffness(c, d1, d2) ==
    IF d1 = d2
    THEN LET v == CHOOSE v \in d1 : TRUE
             w == CHOOSE w \in d1 : w # v
             e == Minus(Point(w), Point(v))
         IN  RDiv(Dot(e, e), Area(c))
    ELSE LET sh == CHOOSE sh \in d1 : sh \in d2
             x == CHOOSE x \in d1 : x # sh
             y == CHOOSE y \in d2 : y # sh
         IN  RSub(RZero,
                  RDiv(Dot(Minus(Point(x), Point(sh)), Minus(Point(y), Point(sh))),
                       Area(c)))

Stiffness(d1, d2) ==
    RSum([c \in Cells |-> CellStiffness(c, d1, d2)],
         {c \in Cells : d1 \subseteq c /\ d2 \subseteq c})

\* The coarse time grid of SpecBC: T / num_steps_h.
num_steps_h == 3

T_h == <<3, 1>>

dt_h == RDiv(T_h, <<num_steps_h, 1>>)

\* The matrix of a = u*v*dx + dt*dot(grad(u), grad(v))*dx.
BilinearForm(d1, d2) == RAdd(Mass(d1, d2), RMul(dt_h, Stiffness(d1, d2)))

\* assemble_matrix(fem.form(a), bcs): the rows and columns of the constrained
\* degrees of freedom are zeroed and their diagonal entries set to 1.
assemble_matrix(bcdofs) ==
    [d1 \in Dofs |-> [d2 \in Dofs |->
        IF d1 \in bcdofs \/ d2 \in bcdofs
        THEN (IF d1 = d2 THEN ROne ELSE RZero)
        ELSE BilinearForm(d1, d2)]]

\* Line 216: A = assemble_matrix(fem.form(a)), with no bcs argument.
A_h == assemble_matrix({})

\* assemble_vector(b, fem.form(L)) for L = (u_n + dt*f)*v*dx: adds to b.
assemble_vector(rhs, un, ff) ==
    [d \in Dofs |->
        RAdd(rhs[d], RMul(Mass(d, d), RAdd(un[d], RMul(dt_h, ff[d]))))]

\* apply_lifting(b, [fem.form(a)], [[bc]]): b - a(., g) for the boundary
\* function g, which is bc.value on bc.dofs and 0 elsewhere.
apply_lifting(rhs, bcs) ==
    [d \in Dofs |->
        RSub(rhs[d],
             RSum([d2 \in Dofs |-> RMul(BilinearForm(d, d2), <<bcs.value, 1>>)],
                  bcs.dofs))]

\* set_bc(b, [bc]): the entries of the constrained dofs are set to bc.value.
set_bc(rhs, bcs) ==
    [d \in Dofs |-> IF d \in bcs.dofs THEN <<bcs.value, 1>> ELSE rhs[d]]

\* The entries of a vector or a matrix held as a set of pairs <<index, value>>,
\* and the value such a set holds at an index.
Entries(fn, S) == {<<d, fn[d]>> : d \in S}

At(G, d) == (CHOOSE pr \in G : pr[1] = d)[2]

\* Gaussian elimination on the entries M of a matrix and r of a right-hand
\* side over the unknowns U: the entries of the solution.
RECURSIVE Eliminate(_, _, _)
Eliminate(M, r, U) ==
    IF U = {} THEN {}
    ELSE LET p == CHOOSE p \in U : At(M, <<p, p>>) # RZero
             R == U \ {p}
             piv == At(M, <<p, p>>)
             M2 == {<<<<i, j>>,
                      RSub(At(M, <<i, j>>),
                           RDiv(RMul(At(M, <<i, p>>), At(M, <<p, j>>)), piv))>> :
                    i \in R, j \in R}
             r2 == {<<i, RSub(At(r, i),
                              RDiv(RMul(At(M, <<i, p>>), At(r, p)), piv))>> :
                    i \in R}
             x == Eliminate(M2, r2, R)
             xp == RDiv(RSub(At(r, p),
                             RSum([j \in R |-> RMul(At(M, <<p, j>>), At(x, j))],
                                  R)),
                        piv)
         IN  x \cup {<<p, xp>>}

\* KSP of type PREONLY with an LU preconditioner (lines 302-305): the exact
\* solution x of mat x = rhs over the unknowns U.
LinearSolve(mat, rhs, U) ==
    LET x == Eliminate({<<<<i, j>>, mat[i][j]>> : i \in U, j \in U},
                       Entries(rhs, U), U)
    IN  [d \in U |-> At(x, d)]

(***************************************************************************)
(* SpecBC: the same script with the discrete data in place of the terms: t  *)
(* and f_expr_t are rationals, f, b, u_n and u_sol vectors over Dofs, A a   *)
(* matrix.  The statements that do not touch those data (DefineBC,          *)
(* CreateSolver, SetSourceTime, GhostUpdate, ScatterForward,                *)
(* UpdatePrevious, UpdatePlot, ClosePlotter, PrintComplete) are the actions *)
(* of Spec; no call raises.                                                 *)
(***************************************************************************)
ZeroVector == [d \in Dofs |-> RZero]

InitBC ==
    /\ pc = "define_bc"
    /\ raised_at = "none"
    /\ t = RZero
    /\ f_expr_t = RZero
    /\ f = Unset
    /\ A = Unset
    /\ b = Unset
    /\ bc = Unset
    /\ u_n = Unset
    /\ u_sol = Unset
    /\ plotter = "none"
    /\ plot_data = Unset
    /\ frames = <<>>
    /\ printed = FALSE
    /\ iter = 0
    /\ solves = 0

\* Lines 160-168.
InitPrevious_h ==
    /\ pc = "init_u_n"
    /\ f_expr_t' = RZero
    /\ u_n' = Interpolate([x \in tabulate_dof_coordinates |-> initial_condition(x)])
    /\ pc' = "define_forms"
    /\ UNCHANGED <<raised_at, t, f, A, b, bc, u_sol,
                   plotter, plot_data, frames, printed, iter, solves>>

\* Lines 178-181 and 202-206.
DefineForms_h ==
    /\ pc = "define_forms"
    /\ t' = RZero
    /\ \E ex \in ExpNegValues(f_expr_t) :
         f' = Interpolate([x \in tabulate_dof_coordinates |->
                            SourceEval(x, ex)])
    /\ pc' = "assemble_system"
    /\ UNCHANGED <<raised_at, f_expr_t, A, b, bc, u_n, u_sol,
                   plotter, plot_data, frames, printed, iter, solves>>

\* Lines 216-218.
AssembleSystem_h ==
    /\ pc = "assemble_system"
    /\ A' = A_h
    /\ b' = ZeroVector
    /\ pc' = "init_u_sol"
    /\ UNCHANGED <<raised_at, t, f_expr_t, f, bc, u_n, u_sol,
                   plotter, plot_data, frames, printed, iter, solves>>

\* Lines 231-233.
InitSolution_h ==
    /\ pc = "init_u_sol"
    /\ u_sol' = Interpolate([x \in tabulate_dof_coordinates |-> initial_condition(x)])
    /\ pc' = "open_plotter"
    /\ UNCHANGED <<raised_at, t, f_expr_t, f, A, b, bc, u_n,
                   plotter, plot_data, frames, printed, iter, solves>>

\* Line 322.
LoopTest_h ==
    /\ pc = "while"
    /\ pc' = IF RLess(t, T_h) THEN "advance" ELSE "close"
    /\ UNCHANGED <<raised_at, t, f_expr_t, f, A, b, bc, u_n, u_sol,
                   plotter, plot_data, frames, printed, iter, solves>>

\* Line 323.
AdvanceTime_h ==
    /\ pc = "advance"
    /\ t' = RAdd(t, dt_h)
    /\ iter' = iter + 1
    /\ pc' = "set_source_time"
    /\ UNCHANGED <<raised_at, f_expr_t, f, A, b, bc, u_n, u_sol,
                   plotter, plot_data, frames, printed, solves>>

\* Line 325.
InterpolateSource_h ==
    /\ pc = "interpolate_f"
    /\ \E ex \in ExpNegValues(f_expr_t) :
         f' = Interpolate([x \in tabulate_dof_coordinates |->
                            SourceEval(x, ex)])
    /\ pc' = "zero_b"
    /\ UNCHANGED <<raised_at, t, f_expr_t, A, b, bc, u_n, u_sol,
                   plotter, plot_data, frames, printed, iter, solves>>

\* Lines 327-328.
ZeroRhs_h ==
    /\ pc = "zero_b"
    /\ b' = ZeroVector
    /\ pc' = "assemble_vector"
    /\ UNCHANGED <<raised_at, t, f_expr_t, f, A, bc, u_n, u_sol,
                   plotter, plot_data, frames, printed, iter, solves>>

\* Line 330.
AssembleVector_h ==
    /\ pc = "assemble_vector"
    /\ b' = assemble_vector(b, u_n, f)
    /\ pc' = "apply_lifting"
    /\ UNCHANGED <<raised_at, t, f_expr_t, f, A, bc, u_n, u_sol,
                   plotter, plot_data, frames, printed, iter, solves>>

\* Line 331.
ApplyLifting_h ==
    /\ pc = "apply_lifting"
    /\ b' = apply_lifting(b, bc)
    /\ pc' = "ghost_update"
    /\ UNCHANGED <<raised_at, t, f_expr_t, f, A, bc, u_n, u_sol,
                   plotter, plot_data, frames, printed, iter, solves>>

\* Line 333.
SetBC_h ==
    /\ pc = "set_bc"
    /\ b' = set_bc(b, bc)
    /\ pc' = "solve"
    /\ UNCHANGED <<raised_at, t, f_expr_t, f, A, bc, u_n, u_sol,
                   plotter, plot_data, frames, printed, iter, solves>>

\* Line 335.
Solve_h ==
    /\ pc = "solve"
    /\ u_sol' = LinearSolve(A, b, Dofs)
    /\ solves' = solves + 1
    /\ pc' = "scatter_forward"
    /\ UNCHANGED <<raised_at, t, f_expr_t, f, A, b, bc, u_n,
                   plotter, plot_data, frames, printed, iter>>

\* Line 350.
WriteFrame_h ==
    /\ pc = "write_frame"
    /\ frames' = Append(frames, plot_data)
    /\ pc' = "while"
    /\ UNCHANGED <<raised_at, t, f_expr_t, f, A, b, bc, u_n, u_sol,
                   plotter, plot_data, printed, iter, solves>>

NextBC ==
    \/ DefineBC \/ InitPrevious_h \/ DefineForms_h \/ AssembleSystem_h
    \/ InitSolution_h \/ OpenPlotter \/ CreateSolver
    \/ LoopTest_h \/ AdvanceTime_h \/ SetSourceTime \/ InterpolateSource_h
    \/ ZeroRhs_h \/ AssembleVector_h \/ ApplyLifting_h \/ GhostUpdate
    \/ SetBC_h \/ Solve_h \/ ScatterForward \/ UpdatePrevious \/ UpdatePlot
    \/ WriteFrame_h \/ ClosePlotter \/ PrintComplete

SpecBC == InitBC /\ [][NextBC]_vars

(***************************************************************************)
(* Properties of Spec.                                                      *)
(***************************************************************************)
AfterLoop == {"close", "print", "done"}

\* C1: u_n equals u_sol at every loop head, and the right-hand side of every
\* solve was assembled from a u_n that is the solution of the step before
\* (the initial condition in the first step).
C1_PreviousIsCurrentAtLoopHead ==
    /\ pc = "while" => u_n = u_sol
    /\ pc = "solve" =>
         /\ Assembled(b) # <<>>
         /\ Assembled(b)[Len(Assembled(b))].u_n = u_sol
         /\ solves = 0 => u_sol = InitialCondition
         /\ solves > 0 => IsSolution(u_sol)

C1_Witness ==
    /\ pc = "solve"
    /\ solves >= 2
    /\ IsSolution(u_n)
    /\ u_n = u_sol

\* C3: every step is a backward-Euler step: the solve uses the forcing term
\* interpolated at the advanced time t = t_n + dt and the u_n of time t_n,
\* and u_n still holds that older solution when the solve returns.
C3_BackwardEulerStep ==
    /\ pc \in {"zero_b", "assemble_vector", "apply_lifting", "ghost_update",
               "set_bc", "solve"} =>
         /\ f_expr_t = t
         /\ f = SourceAt(t)
    /\ pc \in {"scatter_forward", "update_u_n"} =>
         /\ IsSolution(u_sol)
         /\ ForcingTime(u_sol) = t
         /\ Previous(u_sol) = u_n
         /\ IF IsSolution(u_n)
            THEN /\ FLess(ForcingTime(u_n), t)
                 /\ t = FAdd(ForcingTime(u_n), dt)
            ELSE /\ u_n = InitialCondition
                 /\ t = FAdd(FZero, dt)

C3_Witness ==
    /\ pc = "update_u_n"
    /\ solves >= 2
    /\ ForcingTime(u_sol) = t
    /\ IsSolution(u_n)
    /\ FLess(ForcingTime(u_n), t)

\* The calls the claim C4 lists: interpolation, assembly, lifting, solve and
\* frame write.
C4_ListedCalls ==
    {"interpolate_f", "assemble_vector", "apply_lifting", "solve",
     "write_frame"}

\* u_n does not hold the solution of the step of time t.
NotUpdatedForStep == ~IsSolution(u_n) \/ ForcingTime(u_n) # t

\* C4 as stated: after a failure of a listed call in the loop the plotter is
\* not closed, nothing is printed and u_n is not updated for the failed step.
C4_Original ==
    raised_at \in C4_ListedCalls =>
        /\ pc = "raised"
        /\ plotter # "closed"
        /\ ~printed
        /\ NotUpdatedForStep

\* C4, amended: a failure ends the run where it is raised (no statement runs
\* after it), the plotter is not closed and nothing is printed; u_n is not
\* updated for the failed step when the failing call is one up to the solve,
\* and already holds the step's solution when the plot update or the frame
\* write fails.
C4_FailureEndsRun ==
    /\ [](raised_at # "none" =>
            /\ pc = "raised"
            /\ plotter # "closed"
            /\ ~printed
            /\ raised_at \in LoopCalls \ {"update_plot", "write_frame"} =>
                 /\ NotUpdatedForStep
                 /\ u_n = IF raised_at = "scatter_forward"
                          THEN Previous(u_sol) ELSE u_sol
            /\ raised_at \in {"update_plot", "write_frame"} =>
                 /\ u_n = u_sol
                 /\ ~NotUpdatedForStep)
    /\ [][raised_at # "none" => UNCHANGED vars]_vars

C4_Witness ==
    /\ pc = "raised"
    /\ raised_at = "solve"
    /\ solves >= 1
    /\ iter = solves + 1
    /\ NotUpdatedForStep

\* C5: one frame per step, written while the plotter is open, after the
\* step's solve and with the plotted data set to the solution just computed;
\* the plotter is closed after the last iteration and stays closed, and the
\* completion message is printed only after that; between steps and at the
\* end the frames are as many as the solves.
C5_OneFramePerStep ==
    /\ [](/\ pc \in {"while"} \cup AfterLoop => Len(frames) = solves
          /\ Len(frames) <= solves /\ solves <= Len(frames) + 1
          /\ pc = "write_frame" =>
               /\ plotter = "open"
               /\ plot_data = u_sol
               /\ IsSolution(u_sol)
               /\ ForcingTime(u_sol) = t
               /\ Len(frames) = solves - 1
          /\ pc = "while" /\ solves > 0 => frames[Len(frames)] = t
          /\ frames # <<>> => plotter # "none"
          /\ plotter = "closed" => pc \in {"print", "done"} /\ ~FLess(t, T)
          /\ printed => plotter = "closed")
    /\ [][/\ plotter = "closed" => plotter' = "closed" /\ frames' = frames
          /\ frames' # frames =>
               /\ plotter = "open"
               /\ frames' = Append(frames, ForcingTime(u_sol))]_vars

C5_Witness ==
    /\ pc = "done"
    /\ printed
    /\ plotter = "closed"
    /\ Len(frames) = num_steps
    /\ solves = num_steps

\* C6 as stated: the loop ends after num_steps iterations with t = T, and no
\* solve is performed for a time greater than T.
C6_Original ==
    /\ pc \in AfterLoop => iter = num_steps /\ solves = num_steps /\ t = T
    /\ pc = "solve" => ~FLess(T, t)

\* C6, amended: the loop ends after exactly num_steps iterations (num_steps
\* solves); the time of iteration k is the binary64 sum of k additions of dt,
\* which is below T in every iteration but the last and below T + dt in the
\* last; the loop exits with t >= T (here a few units in the last place above
\* T), not with t = T.
C6_ExactlyNumStepsIterations ==
    /\ iter <= num_steps
    /\ solves <= iter
    /\ pc \in AfterLoop =>
         /\ iter = num_steps
         /\ solves = num_steps
         /\ ~FLess(t, T)
         /\ FLess(t, FAdd(T, dt))
    /\ pc = "solve" =>
         /\ FLess(t, FAdd(T, dt))
         /\ iter < num_steps => FLess(t, T)

C6_Witness ==
    /\ pc = "done"
    /\ iter = num_steps
    /\ solves = num_steps
    /\ FLess(T, t)

\* C7: the entity dimension handed to locate_entities_boundary and to
\* locate_dofs_topological is the facet dimension tdim - 1.
C7_FacetDimension ==
    bc # Unset =>
        /\ bc.dim = tdim - 1
        /\ bc.entities = locate_entities_boundary(tdim - 1)

\* C8: b is zero when assemble_vector adds to it, so the b handed to the
\* solver holds the one contribution of this step's u_n and f (then lifted
\* and given its boundary values) and nothing of an earlier step.
C8_RhsOfThisStepOnly ==
    /\ pc = "assemble_vector" => b = <<>>
    /\ pc = "solve" =>
         /\ b = <<AssembledVector(u_n, f), Lifting(bc), BoundaryValues(bc)>>
         /\ Len(Assembled(b)) = 1

C8_Witness ==
    /\ pc = "solve"
    /\ solves >= 1
    /\ Len(b) = 3
    /\ Assembled(b) = <<AssembledVector(u_n, f)>>

(***************************************************************************)
(* Properties of SpecBC.                                                    *)
(***************************************************************************)
\* The degrees of freedom of V on the boundary: those of the exterior edges.
BoundaryDofs == locate_dofs_topological(tdim - 1, ExteriorFacets)

\* C2: after every solve the homogeneous Dirichlet condition holds: the dofs
\* constrained by bc are all the boundary dofs, and u_sol is 0 at each.
C2_DirichletEnforced ==
    solves > 0 =>
        /\ bc.dofs = BoundaryDofs
        /\ \A d \in BoundaryDofs : u_sol[d] = RZero

====
